---- MODULE Spec2Model ----
(***************************************************************************)
(* Unicode property-name lookup (source/common/propname.cpp, formatVersion *)
(* 2): the loose name comparator, the property range index, the value map  *)
(* resolver, the name group decoder, the alias matcher driving a ByteTrie, *)
(* and the four facade operations, as a state machine whose steps are the  *)
(* loop iterations of the C++ functions.                                   *)
(*                                                                         *)
(* Memory is modelled as the code sees it: valueMaps is an array of int32  *)
(* words and nameGroups an array of bytes, both indexed from 0; a C string *)
(* is a sequence of non-zero bytes followed by a 0 byte.  Each running     *)
(* call owns a frame loc[c] holding the locals of the functions it is in.  *)
(***************************************************************************)
EXTENDS Integers, Sequences, FiniteSets, TLC

VARIABLES
    valueMaps,   \* PropNameData::valueMaps[], a sequence of words (index 0 first)
    nameGroups,  \* PropNameData::nameGroups[], a sequence of bytes (index 0 first)
    byteTries,   \* PropNameData::byteTries[]: trie offset -> stored (key -> value)
    input,       \* which input (table, map, group, automaton) Init drew
    loc,         \* loc[c]: the stack frame (locals, program counter) of call c
    trie         \* trie[s]: the ByteTrie object (traversal cursor) in slot s

vars == <<valueMaps, nameGroups, byteTries, input, loc, trie>>

table == <<valueMaps, nameGroups, byteTries>>

----------------------------------------------------------------------------
(* Bounds of the model.                                                    *)

NumCallers == 2
MaxCmpLen == 2
MaxCode == 3
MaxRanges == 2
MaxList == 2
MaxNames == 2
MaxNameLen == 1
MaxAliasLen == 2
MaxKeys == 2

Callers == 1 .. NumCallers

----------------------------------------------------------------------------
(* Bytes, chars and C strings.                                             *)

\* return NULL (a null const char *); real pointers are offsets >= 0.
NullPtr == -1

\* UCHAR_INVALID_CODE, returned by the reverse lookups on no match.
UCHAR_INVALID_CODE == -1

\* A char read from memory: the byte as a signed 8-bit value.
ToChar(b) == IF b >= 128 THEN b - 256 ELSE b

\* The (uint8_t) cast of a char.
ToUInt8(c) == (c + 256) % 256

\* name[k] for a string whose bytes are s and whose pointer is p bytes in:
\* the byte at p+k, the terminating 0 right after the last byte.
CharAt(s, p, k) == IF p + k < Len(s) THEN ToChar(s[p + k + 1]) ELSE 0

\* uprv_asciitolower: 'A'..'Z' to 'a'..'z', every other char unchanged.
uprv_asciitolower(c) == IF 65 <= c /\ c <= 90 THEN c + 32 ELSE c

\* uprv_invCharToLowercaseAscii of the ASCII charset family.
uprv_invCharToLowercaseAscii(c) == uprv_asciitolower(c)

\* All sequences over alphabet A of length at most n.
StringsUpTo(A, n) == UNION {[1 .. k -> A] : k \in 0 .. n}

----------------------------------------------------------------------------
(* getASCIIPropertyNameChar and uprv_compareASCIIPropertyNames.            *)

\* The delimiter test of the scan loop: '-', '_', ' ' and 0x09..0x0d.
IsIgnoredNoUnderscore(c) == c = 45 \/ c = 32 \/ (9 <= c /\ c <= 13)

IsIgnored(c) == c = 45 \/ c = 95 \/ c = 32 \/ (9 <= c /\ c <= 13)

\* The value of i when the scan loop for(i=0; (c=name[i++]) is ignored;) ends.
RECURSIVE ScanEnd(_, _, _)
ScanEnd(s, p, i) ==
    IF IsIgnored(CharAt(s, p, i)) THEN ScanEnd(s, p, i + 1) ELSE i + 1

\* ((advance count)<<8)|character, the character lowercased; 0 at the end.
getASCIIPropertyNameChar(s, p) ==
    LET i == ScanEnd(s, p, 0)
        c == CharAt(s, p, i - 1)
    IN  IF c # 0 THEN i * 256 + ToUInt8(uprv_asciitolower(c)) ELSE i * 256

\* The frame of a call that has not started.
Blank ==
    [pc |-> "idle", stack |-> <<>>, op |-> "none", rv |-> 0,
     str1 |-> <<>>, str2 |-> <<>>, name1 |-> 0, name2 |-> 0,
     property |-> 0, value |-> 0, nameChoice |-> 0,
     i |-> 0, numRanges |-> 0, valueMapIndex |-> 0,
     valuesStart |-> 0, nameGroupOffsetsStart |-> 0,
     nameGroup |-> 0, nameIndex |-> 0,
     byteTrieOffset |-> 0, aliasNull |-> FALSE, alias |-> <<>>, name |-> 0,
     reads |-> {}, scanned |-> {}, iters |-> 0, calls |-> <<>>, queries |-> 0]

\* return v: hand v to the caller on top of the stack, or finish the call.
Return(f, v) ==
    IF f.stack = <<>>
    THEN [f EXCEPT !.pc = "done", !.rv = v]
    ELSE [f EXCEPT !.pc = Head(f.stack), !.stack = Tail(f.stack), !.rv = v]

\* One iteration of the for(;;) loop of uprv_compareASCIIPropertyNames.
CompareStep(f) ==
    LET r1 == getASCIIPropertyNameChar(f.str1, f.name1)
        r2 == getASCIIPropertyNameChar(f.str2, f.name2)
        rc == (r1 % 256) - (r2 % 256)
    IN  IF r1 % 256 = 0 /\ r2 % 256 = 0
        THEN Return(f, 0)
        ELSE IF r1 # r2 /\ rc # 0
        THEN Return(f, rc)
        ELSE [f EXCEPT !.name1 = @ + (r1 \div 256),
                       !.name2 = @ + (r2 \div 256),
                       !.iters = @ + 1]

\* The frame on entry to uprv_compareASCIIPropertyNames(x, y).
CompareFrame(x, y) ==
    [Blank EXCEPT !.pc = "compare", !.op = "compare", !.str1 = x, !.str2 = y]

----------------------------------------------------------------------------
(* PropNameData: the table readers.                                        *)

\* valueMaps[i] and nameGroups[i] (a char), indexed from 0 as in the code.
VM(i) == valueMaps[i + 1]

NG(i) == ToChar(nameGroups[i + 1])

\* int32_t i=1; for(int32_t numRanges=valueMaps[0]; ...
FindPropertyEnter(f) ==
    [f EXCEPT !.pc = "findProperty.loop", !.i = 1, !.numRanges = VM(0),
              !.reads = @ \cup {0}]

\* The index of a property's record, without the record width.
RecordIndexUnscaled(i, property, start) == i + (property - start)

\* i+(property-start)*2: the index of the property's two-word record.
RecordIndex(i, property, start) == i + (property - start) * 2

\* One pass of the for loop of findProperty: its test, then its body.
FindPropertyIter(f) ==
    IF f.numRanges > 0
    THEN LET start == VM(f.i)
             end == VM(f.i + 1)
             i == f.i + 2
             g == [f EXCEPT !.reads = @ \cup {f.i, f.i + 1}, !.iters = @ + 1]
         IN  IF f.property < start
             THEN Return(g, 0)
             ELSE IF f.property <= end
             THEN Return(g, RecordIndex(i, f.property, start))
             ELSE [g EXCEPT !.i = i + ((end - start) + 1) * 2,
                            !.numRanges = @ - 1]
    ELSE Return(f, 0)

\* The threshold of the count word: below it ranges, from it on a list.
ListThreshold == 16

\* findPropertyValueNameGroup up to the choice between ranges and list.
FindGroupEnter(f) ==
    IF f.valueMapIndex = 0
    THEN Return(f, 0)
    ELSE LET numRanges == VM(f.valueMapIndex + 1)
             valueMapIndex == f.valueMapIndex + 2
             g == [f EXCEPT !.numRanges = numRanges,
                            !.valueMapIndex = valueMapIndex,
                            !.reads = @ \cup {f.valueMapIndex + 1}]
         IN  IF numRanges < ListThreshold
             THEN [g EXCEPT !.pc = "findGroup.ranges"]
             ELSE [g EXCEPT !.pc = "findGroup.list",
                            !.valuesStart = valueMapIndex,
                            !.nameGroupOffsetsStart =
                                valueMapIndex + numRanges - ListThreshold]

\* The upper test of a range of values, with its end left out.
BelowEnd(value, end) == value < end

\* if(value<=end)
UpToEnd(value, end) == value <= end

\* One pass of the for loop over the ranges of values.
FindGroupRangeIter(f) ==
    IF f.numRanges > 0
    THEN LET start == VM(f.valueMapIndex)
             end == VM(f.valueMapIndex + 1)
             valueMapIndex == f.valueMapIndex + 2
             g == [f EXCEPT !.reads = @ \cup {f.valueMapIndex, f.valueMapIndex + 1},
                            !.iters = @ + 1]
         IN  IF f.value < start
             THEN Return(g, 0)
             ELSE IF UpToEnd(f.value, end)
             THEN Return([g EXCEPT !.reads = @ \cup {valueMapIndex + f.value - start}],
                         VM(valueMapIndex + f.value - start))
             ELSE [g EXCEPT !.valueMapIndex = valueMapIndex + (end - start) + 1,
                            !.numRanges = @ - 1]
    ELSE Return(f, 0)

\* One pass of the do-while loop over the list of values: its body, then its
\* test.  scanned records the words the body read as a value v.
FindGroupListIter(f) ==
    LET v == VM(f.valueMapIndex)
        g == [f EXCEPT !.reads = @ \cup {f.valueMapIndex},
                       !.scanned = @ \cup {f.valueMapIndex},
                       !.iters = @ + 1]
        at == f.nameGroupOffsetsStart + f.valueMapIndex - f.valuesStart
    IN  IF f.value < v
        THEN Return(g, 0)
        ELSE IF f.value = v
        THEN Return([g EXCEPT !.reads = @ \cup {at}], VM(at))
        ELSE IF f.valueMapIndex + 1 < f.nameGroupOffsetsStart
        THEN [g EXCEPT !.valueMapIndex = @ + 1]
        ELSE Return([g EXCEPT !.valueMapIndex = @ + 1], 0)

\* uprv_strchr(nameGroup, 0): the offset of the next 0 byte.
RECURSIVE uprv_strchr0(_)
uprv_strchr0(p) == IF NG(p) = 0 THEN p ELSE uprv_strchr0(p + 1)

\* The test that rejects nameIndex, without its lower bound.
BadNameIndexNoNegative(numNames, nameIndex, first) ==
    numNames <= nameIndex \/ (nameIndex = 0 /\ first = 0)

\* nameIndex<0 || numNames<=nameIndex || (nameIndex==0 && *nameGroup==0)
BadNameIndex(numNames, nameIndex, first) ==
    nameIndex < 0 \/ numNames <= nameIndex \/ (nameIndex = 0 /\ first = 0)

\* getName up to its loop: the count byte and the test of nameIndex.
GetNameEnter(f) ==
    LET numNames == NG(f.nameGroup)
        nameGroup == f.nameGroup + 1
    IN  IF BadNameIndex(numNames, f.nameIndex, NG(nameGroup))
        THEN Return(f, NullPtr)
        ELSE [f EXCEPT !.pc = "getName.skip", !.nameGroup = nameGroup]

\* One pass of the loop that skips nameIndex names.
GetNameSkip(f) ==
    IF f.nameIndex > 0
    THEN [f EXCEPT !.nameGroup = uprv_strchr0(f.nameGroup) + 1,
                   !.nameIndex = @ - 1, !.iters = @ + 1]
    ELSE Return(f, f.nameGroup)

----------------------------------------------------------------------------
(* ByteTrie, through the three operations the lookups use.  An automaton   *)
(* is the set of its stored [key, value] entries; the traversal cursor is  *)
(* the byte sequence consumed so far.                                      *)

IsPrefix(a, b) == Len(a) <= Len(b) /\ SubSeq(b, 1, Len(a)) = a

\* A ByteTrie object that no call has constructed.
NoTrie == [offset |-> 0, pos |-> <<>>, stopped |-> TRUE, value |-> 0]

\* ByteTrie trie(byteTries+byteTrieOffset)
TrieNew(offset) ==
    [offset |-> offset, pos |-> <<>>, stopped |-> FALSE, value |-> 0]

\* Whether trie.next(b) matches: some stored key continues with b here.
TrieNextOk(t, b) ==
    /\ ~t.stopped
    /\ \E e \in byteTries[t.offset] : IsPrefix(Append(t.pos, b), e.key)

\* The trie after trie.next(b): advanced on a match, stopped otherwise.
TrieNext(t, b) ==
    IF TrieNextOk(t, b)
    THEN [t EXCEPT !.pos = Append(@, b)]
    ELSE [t EXCEPT !.stopped = TRUE]

\* trie.contains(): the cursor is at a stored key.
TrieContains(t) ==
    /\ ~t.stopped
    /\ \E e \in byteTries[t.offset] : e.key = t.pos

\* The trie after trie.contains(): it keeps the value found at a stored key.
TrieAfterContains(t) ==
    IF TrieContains(t)
    THEN [t EXCEPT !.value =
             (CHOOSE e \in byteTries[t.offset] : e.key = t.pos).value]
    ELSE t

\* trie.getValue(): the value the last successful contains() found.
TrieGetValue(t) == t.value

----------------------------------------------------------------------------
(* containsName and getPropertyOrValueEnum.  These steps act on the frame  *)
(* and on the call's ByteTrie object; each yields the pair [f, t].         *)

\* The delimiter test of containsName, without the underscore.
IsDelimiterNoUnderscore(c) == c = 45 \/ c = 32 \/ (9 <= c /\ c <= 13)

\* The delimiter test of containsName, without the whitespace range.
IsDelimiterNoSpaceRange(c) == c = 45 \/ c = 95 \/ c = 32

\* c==0x2d || c==0x5f || c==0x20 || (0x09<=c && c<=0x0d)
IsDelimiter(c) == c = 45 \/ c = 95 \/ c = 32 \/ (9 <= c /\ c <= 13)

\* ByteTrie trie(byteTries+byteTrieOffset); if(containsName(trie, alias))
GetPropertyOrValueEnumEnter(f, t) ==
    [f |-> [f EXCEPT !.pc = "containsName",
                     !.stack = <<"getPropertyOrValueEnum.ret">> \o @],
     t |-> TrieNew(f.byteTrieOffset)]

\* if(name==NULL) return FALSE;
ContainsNameEnter(f, t) ==
    [f |-> IF f.aliasNull
           THEN Return(f, 0)
           ELSE [f EXCEPT !.pc = "containsName.loop", !.name = 0],
     t |-> t]

\* The loop of containsName without if(!trie.next(c)) return FALSE: it goes
\* on consuming after a byte that did not match.
ContainsNameIterNoReturn(f, t) ==
    LET c0 == CharAt(f.alias, f.name, 0)
        g == [f EXCEPT !.name = @ + 1]
        c == uprv_invCharToLowercaseAscii(c0)
    IN  IF c0 = 0
        THEN [f |-> Return([g EXCEPT !.queries = @ + 1],
                           IF TrieContains(t) THEN 1 ELSE 0),
              t |-> TrieAfterContains(t)]
        ELSE IF IsDelimiter(c)
        THEN [f |-> g, t |-> t]
        ELSE LET b == ToUInt8(c)
             IN  [f |-> [g EXCEPT !.calls =
                            Append(@, [byte |-> b, ok |-> TrieNextOk(t, b)])],
                  t |-> TrieNext(t, b)]

\* One pass of the while loop of containsName; on c==0, the return after it.
ContainsNameIter(f, t) ==
    LET c0 == CharAt(f.alias, f.name, 0)
        g == [f EXCEPT !.name = @ + 1]
        c == uprv_invCharToLowercaseAscii(c0)
    IN  IF c0 = 0
        THEN [f |-> Return([g EXCEPT !.queries = @ + 1],
                           IF TrieContains(t) THEN 1 ELSE 0),
              t |-> TrieAfterContains(t)]
        ELSE IF IsDelimiter(c)
        THEN [f |-> g, t |-> t]
        ELSE LET b == ToUInt8(c)
                 ok == TrieNextOk(t, b)
                 h == [g EXCEPT !.calls = Append(@, [byte |-> b, ok |-> ok])]
             IN  [f |-> IF ok THEN h ELSE Return(h, 0), t |-> TrieNext(t, b)]

\* return trie.getValue(); or return UCHAR_INVALID_CODE;
GetPropertyOrValueEnumRet(f, t) ==
    [f |-> IF f.rv # 0
           THEN Return(f, TrieGetValue(t))
           ELSE Return(f, UCHAR_INVALID_CODE),
     t |-> t]

----------------------------------------------------------------------------
(* The four facade operations.  A call pushes the label it resumes at.     *)

Call(f, callee, resume) ==
    [f EXCEPT !.pc = callee, !.stack = <<resume>> \o @]

\* int32_t valueMapIndex=findProperty(property);
GetPropertyNameEnter(f) == Call(f, "findProperty", "getPropertyName.1")

\* return getName(nameGroups+valueMaps[valueMapIndex], nameChoice);
GetPropertyNameRest(f) ==
    IF f.rv = 0
    THEN Return(f, NullPtr)
    ELSE [f EXCEPT !.pc = "getName", !.nameGroup = VM(f.rv),
                   !.nameIndex = f.nameChoice, !.reads = @ \cup {f.rv}]

GetPropertyValueNameEnter(f) ==
    Call(f, "findProperty", "getPropertyValueName.1")

\* findPropertyValueNameGroup(valueMaps[valueMapIndex+1], value)
GetPropertyValueNameGroup(f) ==
    IF f.rv = 0
    THEN Return(f, NullPtr)
    ELSE Call([f EXCEPT !.valueMapIndex = VM(f.rv + 1),
                        !.reads = @ \cup {f.rv + 1}],
              "findGroup", "getPropertyValueName.2")

\* return getName(nameGroups+nameGroupOffset, nameChoice);
GetPropertyValueNameRest(f) ==
    IF f.rv = 0
    THEN Return(f, NullPtr)
    ELSE [f EXCEPT !.pc = "getName", !.nameGroup = f.rv,
                   !.nameIndex = f.nameChoice]

\* return getPropertyOrValueEnum(0, alias);
GetPropertyEnumEnter(f) ==
    [f EXCEPT !.pc = "getPropertyOrValueEnum", !.byteTrieOffset = 0]

GetPropertyValueEnumEnter(f) ==
    Call(f, "findProperty", "getPropertyValueEnum.1")

\* The offset of the root automaton, whatever the value map.
RootTrieOffset(valueMapIndex) == 0

\* valueMaps[valueMapIndex]: the ByteTrie offset, the first word of the map.
ValueTrieOffset(valueMapIndex) == VM(valueMapIndex)

\* valueMapIndex=valueMaps[valueMapIndex+1]; ... valueMaps[valueMapIndex]
GetPropertyValueEnumRest(f) ==
    IF f.rv = 0
    THEN Return(f, UCHAR_INVALID_CODE)
    ELSE LET valueMapIndex == VM(f.rv + 1)
             g == [f EXCEPT !.reads = @ \cup {f.rv + 1}]
         IN  IF valueMapIndex = 0
             THEN Return(g, UCHAR_INVALID_CODE)
             ELSE [g EXCEPT !.pc = "getPropertyOrValueEnum",
                            !.byteTrieOffset = ValueTrieOffset(valueMapIndex),
                            !.reads = @ \cup {valueMapIndex}]

----------------------------------------------------------------------------
(* One step of a call, and a call run alone from a frame to its return.    *)

StepFrame(f, t) ==
    CASE f.pc = "compare" -> [f |-> CompareStep(f), t |-> t]
      [] f.pc = "findProperty" -> [f |-> FindPropertyEnter(f), t |-> t]
      [] f.pc = "findProperty.loop" -> [f |-> FindPropertyIter(f), t |-> t]
      [] f.pc = "findGroup" -> [f |-> FindGroupEnter(f), t |-> t]
      [] f.pc = "findGroup.ranges" -> [f |-> FindGroupRangeIter(f), t |-> t]
      [] f.pc = "findGroup.list" -> [f |-> FindGroupListIter(f), t |-> t]
      [] f.pc = "getName" -> [f |-> GetNameEnter(f), t |-> t]
      [] f.pc = "getName.skip" -> [f |-> GetNameSkip(f), t |-> t]
      [] f.pc = "getPropertyOrValueEnum" -> GetPropertyOrValueEnumEnter(f, t)
      [] f.pc = "containsName" -> ContainsNameEnter(f, t)
      [] f.pc = "containsName.loop" -> ContainsNameIter(f, t)
      [] f.pc = "getPropertyOrValueEnum.ret" -> GetPropertyOrValueEnumRet(f, t)
      [] f.pc = "getPropertyName" -> [f |-> GetPropertyNameEnter(f), t |-> t]
      [] f.pc = "getPropertyName.1" -> [f |-> GetPropertyNameRest(f), t |-> t]
      [] f.pc = "getPropertyValueName" ->
             [f |-> GetPropertyValueNameEnter(f), t |-> t]
      [] f.pc = "getPropertyValueName.1" ->
             [f |-> GetPropertyValueNameGroup(f), t |-> t]
      [] f.pc = "getPropertyValueName.2" ->
             [f |-> GetPropertyValueNameRest(f), t |-> t]
      [] f.pc = "getPropertyEnum" -> [f |-> GetPropertyEnumEnter(f), t |-> t]
      [] f.pc = "getPropertyValueEnum" ->
             [f |-> GetPropertyValueEnumEnter(f), t |-> t]
      [] f.pc = "getPropertyValueEnum.1" ->
             [f |-> GetPropertyValueEnumRest(f), t |-> t]

\* The frame a call ends in when it runs alone, with a ByteTrie of its own.
RECURSIVE RunFrom(_, _)
RunFrom(f, t) ==
    IF f.pc = "done"
    THEN f
    ELSE LET n == StepFrame(f, t) IN RunFrom(n.f, n.t)

RunAlone(f) == RunFrom(f, NoTrie)

\* The slot every call would use were the ByteTrie object a shared static.
SharedTrieSlot(c) == 1

\* The ByteTrie object of call c: a local of its own stack frame.
TrieSlot(c) == c

\* Call c takes the step its program counter is at.
Advance(c) ==
    /\ LET n == StepFrame(loc[c], trie[TrieSlot(c)])
       IN  /\ loc' = [loc EXCEPT ![c] = n.f]
           /\ trie' = [trie EXCEPT ![TrieSlot(c)] = n.t]
    /\ UNCHANGED <<table, input>>

\* Call c is at program point label.
At(c, label) == loc[c].pc = label

\* Call c has not started.
Idle(c) == At(c, "idle")

\* Call c starts in frame f.
Begin(c, f) ==
    /\ loc' = [loc EXCEPT ![c] = f]
    /\ UNCHANGED <<table, input, trie>>

----------------------------------------------------------------------------
(* The comparator alone.                                                   *)

CmpAlphabet == {45, 95, 9, 65, 97, 98, 233}

CmpStrings == StringsUpTo(CmpAlphabet, MaxCmpLen)

CallCompare(c) ==
    /\ Idle(c)
    /\ \E x \in CmpStrings, y \in CmpStrings : Begin(c, CompareFrame(x, y))

CompareLoop(c) ==
    /\ At(c, "compare")
    /\ Advance(c)

InitEmpty ==
    /\ valueMaps = <<>>
    /\ nameGroups = <<>>
    /\ byteTries = <<>>
    /\ input = 0
    /\ loc = [c \in Callers |-> Blank]
    /\ trie = [c \in Callers |-> NoTrie]

NextCompare == CallCompare(1) \/ CompareLoop(1)

SpecCompare == InitEmpty /\ [][NextCompare]_vars

\* The normalised name: the name without its ignored bytes,
\* its ASCII letters lowercased, as unsigned bytes.
Norm(s) ==
    LET kept == SelectSeq(s, LAMBDA b : b \notin {45, 95, 32, 9, 10, 11, 12, 13})
    IN  [k \in 1 .. Len(kept) |->
            IF kept[k] \in 65 .. 90 THEN kept[k] + 32 ELSE kept[k]]

\* The sign of the lexicographic comparison of byte sequences a and b.
RECURSIVE LexSign(_, _)
LexSign(a, b) ==
    IF a = <<>> /\ b = <<>> THEN 0
    ELSE IF a = <<>> THEN -1
    ELSE IF b = <<>> THEN 1
    ELSE IF Head(a) < Head(b) THEN -1
    ELSE IF Head(a) > Head(b) THEN 1
    ELSE LexSign(Tail(a), Tail(b))

Sign(n) == IF n < 0 THEN -1 ELSE IF n > 0 THEN 1 ELSE 0

Compare(x, y) == RunAlone(CompareFrame(x, y)).rv

CmpProbes == StringsUpTo(CmpAlphabet, 1)

CompareDone(c) == loc[c].pc = "done" /\ loc[c].op = "compare"

\* C5: uprv_compareASCIIPropertyNames(x, y) has the sign of the lexicographic
\* comparison, by unsigned byte with the end of the string smallest, of the
\* normalised x and y; so it is 0 exactly when they are equal, its sign is
\* opposite when the arguments are swapped, and it is transitive.
C5_CompareIsNormalisedOrder ==
    \A c \in Callers : CompareDone(c) =>
        LET x == loc[c].str1
            y == loc[c].str2
            r == loc[c].rv
        IN  /\ Sign(r) = LexSign(Norm(x), Norm(y))
            /\ (r = 0) <=> (Norm(x) = Norm(y))
            /\ Sign(Compare(y, x)) = 0 - Sign(r)
            /\ \A z \in CmpProbes :
                  (r <= 0 /\ Compare(y, z) <= 0) => Compare(x, z) <= 0

\* C5 witness: a finished comparison of two different spellings of one name
\* (case, delimiters) that found them equal, and one that found an order.
C5_Witness ==
    /\ CompareDone(1)
    /\ loc[1].str1 # loc[1].str2
    /\ loc[1].rv = 0
    /\ loc[1].iters > 0

----------------------------------------------------------------------------
(* findProperty alone, over every property range table within the bounds.  *)

\* Sets of consecutive codes [start, end] within 0 .. MaxCode.
CodeRanges ==
    {r \in [start : 0 .. MaxCode, end : 0 .. MaxCode] : r.start <= r.end}

\* Ascending, disjoint lists of at most MaxRanges ranges.
RangeLists ==
    {rs \in UNION {[1 .. n -> CodeRanges] : n \in 0 .. MaxRanges} :
        \A k \in 1 .. Len(rs) - 1 : rs[k].end < rs[k + 1].start}

\* The records of the properties p .. end: a name group offset and a value
\* map offset each (here: no named values).
RECURSIVE PropRecords(_, _)
PropRecords(p, end) ==
    IF p > end THEN <<>> ELSE <<p + 1, 0>> \o PropRecords(p + 1, end)

\* The words of the ranges rs[k ..]: start, end, then the range's records.
RECURSIVE RangeWords(_, _)
RangeWords(rs, k) ==
    IF k > Len(rs)
    THEN <<>>
    ELSE <<rs[k].start, rs[k].end>> \o PropRecords(rs[k].start, rs[k].end)
             \o RangeWords(rs, k + 1)

\* The property range table: numRanges, then the ranges.
RangeTable(rs) == <<Len(rs)>> \o RangeWords(rs, 1)

\* What follows the range table in valueMaps[]: the first value map.
AfterRangeTable == <<0, 1, 0, 0, 1>>

InitRanges ==
    /\ \E rs \in RangeLists :
          /\ input = rs
          /\ valueMaps = RangeTable(rs) \o AfterRangeTable
    /\ nameGroups = <<>>
    /\ byteTries = <<>>
    /\ loc = [c \in Callers |-> Blank]
    /\ trie = [c \in Callers |-> NoTrie]

FindPropertyFrame(property) ==
    [Blank EXCEPT !.pc = "findProperty", !.op = "findProperty",
                  !.property = property]

CallFindProperty(c) ==
    /\ Idle(c)
    /\ \E property \in -1 .. MaxCode + 1 : Begin(c, FindPropertyFrame(property))

FindPropertyStart(c) ==
    /\ At(c, "findProperty")
    /\ Advance(c)

FindPropertyLoop(c) ==
    /\ At(c, "findProperty.loop")
    /\ Advance(c)

NextFindProperty ==
    CallFindProperty(1) \/ FindPropertyStart(1) \/ FindPropertyLoop(1)

SpecFindProperty == InitRanges /\ [][NextFindProperty]_vars

\* The ranges of rs that cover code p (at most one).
Covering(rs, p) == {k \in 1 .. Len(rs) : rs[k].start <= p /\ p <= rs[k].end}

\* The index in valueMaps[] of the first record of range k of rs.
RECURSIVE FirstRecord(_, _)
FirstRecord(rs, k) ==
    IF k = 1
    THEN 3
    ELSE FirstRecord(rs, k - 1)
             + 2 * (rs[k - 1].end - rs[k - 1].start + 1) + 2

\* C7: findProperty examines at most numRanges ranges, reads no word beyond
\* the property range table, returns 0 exactly for a code no range covers,
\* and for a code in [start, end] returns the non-zero index of the range's
\* first record plus (code - start) * 2.
C7_FindPropertyScan ==
    \A c \in Callers : loc[c].op = "findProperty" =>
        LET f == loc[c]
            rs == input
            hit == Covering(rs, f.property)
        IN  /\ f.iters <= Len(rs)
            /\ f.reads \subseteq 0 .. Len(RangeTable(rs)) - 1
            /\ f.pc = "done" =>
                 /\ (f.rv = 0) <=> (hit = {})
                 /\ \A k \in hit :
                       f.rv = FirstRecord(rs, k) + (f.property - rs[k].start) * 2

\* C7 witness: a finished lookup of a code that is not the first of the
\* second range, found after the first range was skipped.
C7_Witness ==
    /\ loc[1].op = "findProperty"
    /\ loc[1].pc = "done"
    /\ Len(input) = 2
    /\ input[2].start < loc[1].property
    /\ loc[1].property <= input[2].end
    /\ loc[1].rv # 0
    /\ loc[1].iters = 2

----------------------------------------------------------------------------
(* findPropertyValueNameGroup alone, over every list-coded value map       *)
(* within the bounds.                                                      *)

\* Ascending lists of at most MaxList values.
ValueLists ==
    {vs \in UNION {[1 .. n -> 0 .. MaxCode] : n \in 0 .. MaxList} :
        \A k \in 1 .. Len(vs) - 1 : vs[k] < vs[k + 1]}

\* The name group offset stored for the k-th value of a list.
ListOffset(k) == k

\* A list-coded value map: ByteTrie offset, 0x10 + n, n values, n offsets.
ListMap(vs) ==
    <<5, ListThreshold + Len(vs)>> \o vs \o [k \in 1 .. Len(vs) |-> ListOffset(k)]

\* What follows a value map in valueMaps[]: the next value map, range-coded.
AfterValueMap == <<2, 1, 0, 0, 9>>

\* valueMaps[]: an empty property range table, the value map at index 1.
InitList ==
    /\ \E vs \in ValueLists :
          /\ input = vs
          /\ valueMaps = <<0>> \o ListMap(vs) \o AfterValueMap
    /\ nameGroups = <<>>
    /\ byteTries = <<>>
    /\ loc = [c \in Callers |-> Blank]
    /\ trie = [c \in Callers |-> NoTrie]

FindGroupFrame(valueMapIndex, value) ==
    [Blank EXCEPT !.pc = "findGroup", !.op = "findGroup",
                  !.valueMapIndex = valueMapIndex, !.value = value]

CallFindGroup(c) ==
    /\ Idle(c)
    /\ \E value \in -1 .. MaxCode + 1 : Begin(c, FindGroupFrame(1, value))

FindGroupStart(c) ==
    /\ At(c, "findGroup")
    /\ Advance(c)

FindGroupListLoop(c) ==
    /\ At(c, "findGroup.list")
    /\ Advance(c)

NextFindGroup ==
    CallFindGroup(1) \/ FindGroupStart(1) \/ FindGroupListLoop(1)

SpecFindGroup == InitList /\ [][NextFindGroup]_vars

\* The positions of value v in the list vs (at most one).
ListHits(vs, v) == {k \in 1 .. Len(vs) : vs[k] = v}

\* For the list vs: the lookup reads as a value only words of the values
\* array (indexes 3 .. 2+n of valueMaps[]), and it returns the offset at the
\* position of the value, or 0 for a value that is not in the list.
ListLookupRight(f, vs) ==
    /\ f.scanned \subseteq 3 .. 2 + Len(vs)
    /\ f.pc = "done" =>
         /\ \A k \in ListHits(vs, f.value) : f.rv = ListOffset(k)
         /\ ListHits(vs, f.value) = {} => f.rv = 0

\* C8: for a list-coded value map of n >= 0 entries, findNameGroupOffset
\* returns the offset at position k iff valueCode is the k-th value, returns
\* 0 for every valueCode not in the values array (also when the list has no
\* entry), reads no slot of the values array at index >= n and compares
\* valueCode with no word of the offsets array.
C8_ListLookup ==
    \A c \in Callers : loc[c].op = "findGroup" => ListLookupRight(loc[c], input)

\* The same for the lists of at least one entry.
ListLookupNonEmpty ==
    \A c \in Callers :
        (loc[c].op = "findGroup" /\ input # <<>>) => ListLookupRight(loc[c], input)

\* A finished lookup in a list of two values that returned the second offset.
ListLookupSecond ==
    /\ loc[1].op = "findGroup"
    /\ loc[1].pc = "done"
    /\ Len(input) = 2
    /\ loc[1].value = input[2]
    /\ loc[1].rv = ListOffset(2)

----------------------------------------------------------------------------
(* getName alone, over every name group within the bounds.                 *)

\* The names of the groups: the bytes 'a', 'b'; a name may be empty.
NameStrings == StringsUpTo({97, 98}, MaxNameLen)

\* The lists of at most MaxNames names.
NameLists == UNION {[1 .. n -> NameStrings] : n \in 0 .. MaxNames}

\* The names from the k-th on, each followed by its 0 byte.
RECURSIVE NameBytes(_, _)
NameBytes(names, k) ==
    IF k > Len(names)
    THEN <<>>
    ELSE names[k] \o <<0>> \o NameBytes(names, k + 1)

\* A name group: the count byte, then the names.
NameGroup(names) == <<Len(names)>> \o NameBytes(names, 1)

\* What follows a name group in nameGroups[]: the next group.
AfterNameGroup == <<1, 98, 97, 0>>

\* nameGroups[]: a 0 byte, then the group at offset 1.
InitGroup ==
    /\ \E names \in NameLists :
          /\ input = names
          /\ nameGroups = <<0>> \o NameGroup(names) \o AfterNameGroup
    /\ valueMaps = <<>>
    /\ byteTries = <<>>
    /\ loc = [c \in Callers |-> Blank]
    /\ trie = [c \in Callers |-> NoTrie]

GetNameFrame(nameGroup, nameIndex) ==
    [Blank EXCEPT !.pc = "getName", !.op = "getName",
                  !.nameGroup = nameGroup, !.nameIndex = nameIndex,
                  !.nameChoice = nameIndex]

CallGetName(c) ==
    /\ Idle(c)
    /\ \E nameIndex \in -1 .. MaxNames + 1 : Begin(c, GetNameFrame(1, nameIndex))

GetNameStart(c) ==
    /\ At(c, "getName")
    /\ Advance(c)

GetNameLoop(c) ==
    /\ At(c, "getName.skip")
    /\ Advance(c)

NextGetName == CallGetName(1) \/ GetNameStart(1) \/ GetNameLoop(1)

SpecGetName == InitGroup /\ [][NextGetName]_vars

\* The C string at offset p of nameGroups[]: the bytes before the next 0.
RECURSIVE CStrAt(_)
CStrAt(p) ==
    IF nameGroups[p + 1] = 0 THEN <<>> ELSE <<nameGroups[p + 1]>> \o CStrAt(p + 1)

\* The offset right after the index-th 0 terminator of the group at offset 1.
RECURSIVE AfterTerminators(_, _)
AfterTerminators(names, index) ==
    IF index = 0
    THEN 2
    ELSE AfterTerminators(names, index - 1) + Len(names[index]) + 1

\* C9: getName(group, index) is not-found iff index < 0, or index >= the
\* count byte, or index = 0 and the first name is empty; otherwise it is the
\* name that starts right after the index-th 0 terminator (an empty name at
\* an index >= 1 is returned as an empty name).
C9_GetNameBounds ==
    \A c \in Callers : (loc[c].op = "getName" /\ loc[c].pc = "done") =>
        LET names == input
            index == loc[c].nameChoice
            bad == \/ index < 0
                   \/ index >= Len(names)
                   \/ (index = 0 /\ names[1] = <<>>)
        IN  /\ (loc[c].rv = NullPtr) <=> bad
            /\ ~bad => /\ loc[c].rv = AfterTerminators(names, index)
                       /\ CStrAt(loc[c].rv) = names[index + 1]

\* C9 witness: getName(group, 1) returned the non-empty second name of a
\* group whose first name is empty.
C9_Witness ==
    /\ loc[1].op = "getName"
    /\ loc[1].pc = "done"
    /\ Len(input) >= 2
    /\ input[1] = <<>>
    /\ input[2] # <<>>
    /\ loc[1].nameChoice = 1
    /\ loc[1].rv # NullPtr
    /\ CStrAt(loc[1].rv) = input[2]

----------------------------------------------------------------------------
(* getPropertyOrValueEnum alone, over automata and aliases within bounds.  *)

\* The keys an automaton may store: normalised names over 'a', 'b'.
TrieKeys == StringsUpTo({97, 98}, 2)

\* The value stored with a key, different for each key.
KeyValue(key) ==
    CASE Len(key) = 0 -> 0
      [] Len(key) = 1 -> key[1] - 94
      [] OTHER -> 2 * (key[1] - 97) + key[2] - 91

\* The automata of at most MaxKeys keys.
Automata ==
    {{[key |-> k, value |-> KeyValue(k)] : k \in ks} :
        ks \in {x \in SUBSET TrieKeys : Cardinality(x) <= MaxKeys}}

\* The automaton at offset 0 (the root).
RootAutomaton == {[key |-> <<98>>, value |-> 1]}

\* byteTries[]: the root automaton at offset 0, a second one at offset 4.
InitTries ==
    /\ \E a \in Automata :
          /\ input = a
          /\ byteTries = (0 :> RootAutomaton) @@ (4 :> a)
    /\ valueMaps = <<>>
    /\ nameGroups = <<>>
    /\ loc = [c \in Callers |-> Blank]
    /\ trie = [c \in Callers |-> NoTrie]

AliasAlphabet == {45, 9, 65, 97, 98}

Aliases == StringsUpTo(AliasAlphabet, MaxAliasLen)

EnumFrame(byteTrieOffset, aliasNull, alias) ==
    [Blank EXCEPT !.pc = "getPropertyOrValueEnum", !.op = "enum",
                  !.byteTrieOffset = byteTrieOffset,
                  !.aliasNull = aliasNull, !.alias = alias]

CallEnum(c) ==
    /\ Idle(c)
    /\ \E byteTrieOffset \in {0, 4} :
          \/ \E alias \in Aliases : Begin(c, EnumFrame(byteTrieOffset, FALSE, alias))
          \/ Begin(c, EnumFrame(byteTrieOffset, TRUE, <<>>))

EnumStart(c) ==
    /\ At(c, "getPropertyOrValueEnum")
    /\ Advance(c)

ContainsNameStart(c) ==
    /\ At(c, "containsName")
    /\ Advance(c)

ContainsNameLoop(c) ==
    /\ At(c, "containsName.loop")
    /\ Advance(c)

EnumReturn(c) ==
    /\ At(c, "getPropertyOrValueEnum.ret")
    /\ Advance(c)

NextEnum ==
    \/ CallEnum(1)
    \/ EnumStart(1)
    \/ ContainsNameStart(1)
    \/ ContainsNameLoop(1)
    \/ EnumReturn(1)

SpecEnum == InitTries /\ [][NextEnum]_vars

\* The characters getASCIIPropertyNameChar extracts from s, from offset p on.
RECURSIVE Extract(_, _)
Extract(s, p) ==
    LET r == getASCIIPropertyNameChar(s, p)
    IN  IF r % 256 = 0 THEN <<>> ELSE <<r % 256>> \o Extract(s, p + (r \div 256))

\* The bytes of the consume calls made so far.
Consumed(f) == [k \in 1 .. Len(f.calls) |-> f.calls[k].byte]

\* The stored entries of the automaton at a trie offset with key k.
Stored(offset, k) == {e \in byteTries[offset] : e.key = k}

\* C10: containsName consumes exactly the lowercased non-delimiter characters
\* of the alias, in order, and nothing after the first consume call that
\* reports no match; it matches iff every consume call succeeded and the
\* final position is a terminal (so a proper prefix of stored aliases is no
\* match); a null alias is no match, with no consume call and no terminal
\* query.
C10_ConsumeProtocol ==
    \A c \in Callers : loc[c].op = "enum" =>
        LET f == loc[c]
            ext == Extract(f.alias, 0)
            hit == Stored(f.byteTrieOffset, ext)
        IN  /\ f.aliasNull =>
                 /\ f.calls = <<>>
                 /\ f.queries = 0
                 /\ f.pc = "done" => f.rv = UCHAR_INVALID_CODE
            /\ ~f.aliasNull =>
                 /\ IsPrefix(Consumed(f), ext)
                 /\ \A k \in 1 .. Len(f.calls) - 1 : f.calls[k].ok
                 /\ f.queries <= 1
                 /\ f.queries = 1 =>
                       /\ Consumed(f) = ext
                       /\ \A k \in 1 .. Len(f.calls) : f.calls[k].ok
                 /\ f.pc = "done" =>
                       /\ hit = {} => f.rv = UCHAR_INVALID_CODE
                       /\ \A e \in hit :
                             /\ f.rv = e.value
                             /\ f.queries = 1
                       /\ (f.queries = 0) <=>
                             (f.calls # <<>> /\ ~f.calls[Len(f.calls)].ok)

\* C10 witness: a finished match of an alias that is only a proper prefix of
\* a stored alias: every byte consumed, the terminal query made, no match.
C10_Witness ==
    /\ loc[1].op = "enum"
    /\ loc[1].pc = "done"
    /\ loc[1].byteTrieOffset = 4
    /\ Len(loc[1].calls) = 1
    /\ loc[1].calls[1].ok
    /\ loc[1].queries = 1
    /\ loc[1].rv = UCHAR_INVALID_CODE
    /\ \E e \in byteTries[4] : Len(e.key) = 2

\* The other case of an ASCII letter.
FlipCase(b) ==
    IF b \in 65 .. 90 THEN b + 32 ELSE IF b \in 97 .. 122 THEN b - 32 ELSE b

\* s with byte b inserted after its first k bytes.
InsertAt(s, k, b) == SubSeq(s, 1, k) \o <<b>> \o SubSeq(s, k + 1, Len(s))

\* The spellings one edit away from s: the case of one letter flipped, one
\* of '-', '_', ' ' inserted between two characters, one ASCII whitespace
\* byte added in front or at the end.
Respellings(s) ==
    {[s EXCEPT ![k] = FlipCase(@)] : k \in 1 .. Len(s)}
        \cup {InsertAt(s, k, d) : k \in 1 .. Len(s) - 1, d \in {45, 95, 32}}
        \cup {InsertAt(s, k, w) : k \in {0, Len(s)}, w \in {32} \cup 9 .. 13}

\* The result of getPropertyOrValueEnum(byteTrieOffset, alias) run alone.
EnumOf(byteTrieOffset, alias) ==
    RunAlone(EnumFrame(byteTrieOffset, FALSE, alias)).rv

\* C3: the reverse lookup of an alias and of each respelling of it (case of
\* a letter flipped, '-', '_' or space inserted between characters, ASCII
\* whitespace added in front or at the end) give the same result, match or
\* not, in any automaton.  Any number of such edits is a chain of single
\* ones.
C3_LooseMatchInvariance ==
    \A c \in Callers :
        (loc[c].op = "enum" /\ loc[c].pc = "done" /\ ~loc[c].aliasNull) =>
            \A a \in Respellings(loc[c].alias) :
                EnumOf(loc[c].byteTrieOffset, a) = loc[c].rv

\* C3 witness: a finished lookup that matched an alias spelled with an
\* upper-case letter and a delimiter.
C3_Witness ==
    /\ loc[1].op = "enum"
    /\ loc[1].pc = "done"
    /\ loc[1].rv # UCHAR_INVALID_CODE
    /\ \E k \in 1 .. Len(loc[1].alias) : loc[1].alias[k] = 65
    /\ \E k \in 1 .. Len(loc[1].alias) : loc[1].alias[k] \in {45, 9}

----------------------------------------------------------------------------
(* Whole tables.  A table is described by its content: the ranges of       *)
(* property codes and, per property in code order, its names and its value *)
(* map (kind "none", "ranges" or "list"; values ascending, names[j] the    *)
(* names of values[j]).  TableOf lays the content out as the three arrays  *)
(* the lookups read, the automata holding the normalised names.            *)

\* The codes of the ranges rs[k ..], in order.
RECURSIVE Flatten(_, _)
Flatten(rs, k) ==
    IF k > Len(rs)
    THEN <<>>
    ELSE [j \in 1 .. rs[k].end - rs[k].start + 1 |-> rs[k].start + j - 1]
             \o Flatten(rs, k + 1)

NoMap == [kind |-> "none", ranges |-> <<>>, values |-> <<>>, names |-> <<>>]

RangeMap(ranges, names) ==
    [kind |-> "ranges", ranges |-> ranges, values |-> Flatten(ranges, 1),
     names |-> names]

ListMapOf(values, names) ==
    [kind |-> "list", ranges |-> <<>>, values |-> values, names |-> names]

\* The property codes of a table, in order; props[k] describes PropCodes[k].
PropCodes(T) == Flatten(T.ranges, 1)

\* The names lists of the value maps of the properties k .. , in order.
RECURSIVE ValueGroups(_, _)
ValueGroups(T, k) ==
    IF k > Len(T.props)
    THEN <<>>
    ELSE T.props[k].map.names \o ValueGroups(T, k + 1)

\* Every names list of the table in the order of its name groups: those of
\* the properties, then those of the values.
Groups(T) == [k \in 1 .. Len(T.props) |-> T.props[k].names] \o ValueGroups(T, 1)

\* The bytes of the name groups gs[j ..].
RECURSIVE GroupBytes(_, _)
GroupBytes(gs, j) ==
    IF j > Len(gs) THEN <<>> ELSE NameGroup(gs[j]) \o GroupBytes(gs, j + 1)

\* The offset in nameGroups[] of the j-th name group; offset 0 is a 0 byte.
RECURSIVE GroupOffset(_, _)
GroupOffset(gs, j) ==
    IF j = 1 THEN 1 ELSE GroupOffset(gs, j - 1) + Len(NameGroup(gs[j - 1]))

\* The number of values of the properties before the k-th.
RECURSIVE ValuesBefore(_, _)
ValuesBefore(T, k) ==
    IF k = 1
    THEN 0
    ELSE ValuesBefore(T, k - 1) + Len(T.props[k - 1].map.values)

\* The offset of the name group of the j-th value of the k-th property.
ValueGroupOffset(T, k, j) ==
    GroupOffset(Groups(T), Len(T.props) + ValuesBefore(T, k) + j)

\* The offset in byteTries[] of the automaton of the k-th property.
TrieOffsetOf(k) == 4 * k

\* The words of the ranges r .. of a range-coded map of the k-th property;
\* j is the number of values in the ranges before r.
RECURSIVE ValueRangeWords(_, _, _, _)
ValueRangeWords(T, k, r, j) ==
    LET rs == T.props[k].map.ranges
    IN  IF r > Len(rs)
        THEN <<>>
        ELSE LET n == rs[r].end - rs[r].start + 1
             IN  <<rs[r].start, rs[r].end>>
                     \o [x \in 1 .. n |-> ValueGroupOffset(T, k, j + x)]
                     \o ValueRangeWords(T, k, r + 1, j + n)

\* The words of the value map of the k-th property.
MapWords(T, k) ==
    LET m == T.props[k].map
    IN  CASE m.kind = "none" -> <<>>
          [] m.kind = "ranges" ->
                 <<TrieOffsetOf(k), Len(m.ranges)>> \o ValueRangeWords(T, k, 1, 0)
          [] m.kind = "list" ->
                 <<TrieOffsetOf(k), ListThreshold + Len(m.values)>> \o m.values
                     \o [j \in 1 .. Len(m.values) |-> ValueGroupOffset(T, k, j)]

\* The words of the value maps of the properties k .. .
RECURSIVE AllMapWords(_, _)
AllMapWords(T, k) ==
    IF k > Len(T.props) THEN <<>> ELSE MapWords(T, k) \o AllMapWords(T, k + 1)

\* The length of the property range table.
RangeTableLen(T) == Len(RangeTable(T.ranges))

\* The index in valueMaps[] of the value map of the k-th property, 0 for a
\* property without named values.
RECURSIVE MapEnd(_, _)
MapEnd(T, k) ==
    IF k = 0 THEN RangeTableLen(T) ELSE MapEnd(T, k - 1) + Len(MapWords(T, k))

MapOffset(T, k) == IF T.props[k].map.kind = "none" THEN 0 ELSE MapEnd(T, k - 1)

\* The records of the properties k .. k+n-1: name group and value map offset.
RECURSIVE TableRecords(_, _, _)
TableRecords(T, k, n) ==
    IF n = 0
    THEN <<>>
    ELSE <<GroupOffset(Groups(T), k), MapOffset(T, k)>>
             \o TableRecords(T, k + 1, n - 1)

\* The words of the ranges r .. of the property range table; k is the
\* position in props of the first property of range r.
RECURSIVE TableRangeWords(_, _, _)
TableRangeWords(T, r, k) ==
    IF r > Len(T.ranges)
    THEN <<>>
    ELSE LET n == T.ranges[r].end - T.ranges[r].start + 1
         IN  <<T.ranges[r].start, T.ranges[r].end>> \o TableRecords(T, k, n)
                 \o TableRangeWords(T, r + 1, k + n)

\* The entries of an automaton for codes[j] named names[j]: one per
\* non-empty name, keyed by the normalised name.
AutomatonOf(codes, names) ==
    UNION {{[key |-> Norm(names[j][x]), value |-> codes[j]] :
               x \in {y \in 1 .. Len(names[j]) : names[j][y] # <<>>}} :
           j \in 1 .. Len(codes)}

\* byteTries[]: the root automaton of the property names at offset 0, the
\* automaton of the value names of each property that has a value map.
TriesOf(T) ==
    [o \in {0} \cup {TrieOffsetOf(k) :
                       k \in {x \in 1 .. Len(T.props) : T.props[x].map.kind # "none"}} |->
        IF o = 0
        THEN AutomatonOf(PropCodes(T), [k \in 1 .. Len(T.props) |-> T.props[k].names])
        ELSE AutomatonOf(T.props[o \div 4].map.values, T.props[o \div 4].map.names)]

TableOf(T) ==
    [valueMaps |-> <<Len(T.ranges)>> \o TableRangeWords(T, 1, 1) \o AllMapWords(T, 1),
     nameGroups |-> <<0>> \o GroupBytes(Groups(T), 1),
     byteTries |-> TriesOf(T)]

\* Names, as bytes.
Foo == <<70, 111, 111>>

Foobar == <<70, 111, 111, 98, 97, 114>>

\* One range of properties 0..2.  Property 0 "P"/"Pq": values 0..1 in one
\* range, "Foo"/"Foobar" and "Ba"/"B_r".  Property 1, no short name, "Q_q":
\* no named values.  Property 2 "R"/"Rs"/"T": the list of values 1 (no short
\* name, "On") and 3 ("Ba"/"P").
Table1 ==
    [ranges |-> <<[start |-> 0, end |-> 2]>>,
     props |-> <<
        [names |-> <<(<<80>>), <<80, 113>>>>,
         map |-> RangeMap(<<[start |-> 0, end |-> 1]>>,
                          <<(<<Foo, Foobar>>), <<(<<66, 97>>), <<66, 95, 114>>>>>>)],
        [names |-> <<(<<>>), <<81, 95, 113>>>>, map |-> NoMap],
        [names |-> <<(<<82>>), <<82, 115>>, <<84>>>>,
         map |-> ListMapOf(<<1, 3>>,
                           <<(<<(<<>>), <<79, 110>>>>), <<(<<66, 97>>), <<80>>>>>>)]>>]

\* Two ranges of properties, 0..0 and 2..3.  Property 0 "Ab"/"A-b c": values
\* in two ranges, 0 ("N"/"No") and 2..3 ("Y"/"Ye", "M"/"Ma"/"Mb").  Property
\* 2 "C": the list of the one value 0 ("Z").  Property 3 "D"/"Dd": no named
\* values.
Table2 ==
    [ranges |-> <<[start |-> 0, end |-> 0], [start |-> 2, end |-> 3]>>,
     props |-> <<
        [names |-> <<(<<65, 98>>), <<65, 45, 98, 32, 99>>>>,
         map |-> RangeMap(<<[start |-> 0, end |-> 0], [start |-> 2, end |-> 3]>>,
                          <<(<<(<<78>>), <<78, 111>>>>),
                            <<(<<89>>), <<89, 101>>>>,
                            <<(<<77>>), <<77, 97>>, <<77, 98>>>>>>)],
        [names |-> <<(<<67>>)>>,
         map |-> ListMapOf(<<0>>, <<(<<(<<90>>)>>)>>)],
        [names |-> <<(<<68>>), <<68, 100>>>>, map |-> NoMap]>>]

Tables == <<Table1, Table2>>

\* The arrays of each table.
Laid == [id \in 1 .. Len(Tables) |-> TableOf(Tables[id])]

----------------------------------------------------------------------------
(* The facade operations over whole tables.                                *)

\* The table is laid out before any lookup is made.
InitTable ==
    /\ \E id \in 1 .. Len(Tables) :
          /\ input = id
          /\ valueMaps = Laid[id].valueMaps
          /\ nameGroups = Laid[id].nameGroups
          /\ byteTries = Laid[id].byteTries
    /\ loc = [c \in Callers |-> Blank]
    /\ trie = [c \in Callers |-> NoTrie]

\* The frame on entry to facade operation op.
FacadeFrame(op, property, value, nameChoice, aliasNull, alias) ==
    [Blank EXCEPT !.pc = op, !.op = op, !.property = property,
                  !.value = value, !.nameChoice = nameChoice,
                  !.aliasNull = aliasNull, !.alias = alias]

\* Every name of the tables.
AllNames ==
    UNION {UNION {{gs[j][x] : x \in 1 .. Len(gs[j])} : j \in 1 .. Len(gs)} :
           gs \in {Groups(Tables[id]) : id \in 1 .. Len(Tables)}}

\* The aliases looked up: the names as stored, the names normalised, and
\* "f-o-o", "x", "F", "Foob", which are no stored spelling.
FacadeAliases ==
    AllNames \cup {Norm(n) : n \in AllNames}
        \cup {<<102, 45, 111, 45, 111>>, <<120>>, <<70>>, <<70, 111, 111, 98>>}

\* The property and value codes, and the name choices, looked up.
Codes == -1 .. MaxCode + 1

Choices == -1 .. MaxNames + 1

\* u_getPropertyName(property, nameChoice)
CallPropertyName(c) ==
    /\ Idle(c)
    /\ \E property \in Codes, nameChoice \in Choices :
          Begin(c, FacadeFrame("getPropertyName", property, 0, nameChoice,
                               FALSE, <<>>))

\* u_getPropertyValueName(property, value, nameChoice)
CallPropertyValueName(c) ==
    /\ Idle(c)
    /\ \E property \in Codes, value \in Codes, nameChoice \in Choices :
          Begin(c, FacadeFrame("getPropertyValueName", property, value,
                               nameChoice, FALSE, <<>>))

\* u_getPropertyEnum(alias)
CallPropertyEnum(c) ==
    /\ Idle(c)
    /\ \/ \E alias \in FacadeAliases :
             Begin(c, FacadeFrame("getPropertyEnum", 0, 0, 0, FALSE, alias))
       \/ Begin(c, FacadeFrame("getPropertyEnum", 0, 0, 0, TRUE, <<>>))

\* u_getPropertyValueEnum(property, alias)
CallPropertyValueEnum(c) ==
    /\ Idle(c)
    /\ \E property \in Codes :
          \/ \E alias \in FacadeAliases :
                Begin(c, FacadeFrame("getPropertyValueEnum", property, 0, 0,
                                     FALSE, alias))
          \/ Begin(c, FacadeFrame("getPropertyValueEnum", property, 0, 0,
                                  TRUE, <<>>))

FindGroupRangeLoop(c) ==
    /\ At(c, "findGroup.ranges")
    /\ Advance(c)

PropertyNameStart(c) ==
    /\ At(c, "getPropertyName")
    /\ Advance(c)

PropertyNameFound(c) ==
    /\ At(c, "getPropertyName.1")
    /\ Advance(c)

PropertyValueNameStart(c) ==
    /\ At(c, "getPropertyValueName")
    /\ Advance(c)

PropertyValueNameFound(c) ==
    /\ At(c, "getPropertyValueName.1")
    /\ Advance(c)

PropertyValueNameGroup(c) ==
    /\ At(c, "getPropertyValueName.2")
    /\ Advance(c)

PropertyEnumStart(c) ==
    /\ At(c, "getPropertyEnum")
    /\ Advance(c)

PropertyValueEnumStart(c) ==
    /\ At(c, "getPropertyValueEnum")
    /\ Advance(c)

PropertyValueEnumFound(c) ==
    /\ At(c, "getPropertyValueEnum.1")
    /\ Advance(c)

\* A step of call c inside any function of the lookups.
StepOf(c) ==
    \/ FindPropertyStart(c)
    \/ FindPropertyLoop(c)
    \/ FindGroupStart(c)
    \/ FindGroupRangeLoop(c)
    \/ FindGroupListLoop(c)
    \/ GetNameStart(c)
    \/ GetNameLoop(c)
    \/ EnumStart(c)
    \/ ContainsNameStart(c)
    \/ ContainsNameLoop(c)
    \/ EnumReturn(c)
    \/ PropertyNameStart(c)
    \/ PropertyNameFound(c)
    \/ PropertyValueNameStart(c)
    \/ PropertyValueNameFound(c)
    \/ PropertyValueNameGroup(c)
    \/ PropertyEnumStart(c)
    \/ PropertyValueEnumStart(c)
    \/ PropertyValueEnumFound(c)

\* One call at a time, over every argument within the bounds.
NextFacade ==
    \/ CallPropertyName(1)
    \/ CallPropertyValueName(1)
    \/ CallPropertyEnum(1)
    \/ CallPropertyValueEnum(1)
    \/ StepOf(1)

SpecFacade == InitTable /\ [][NextFacade]_vars

\* The calls made concurrently: each of the four operations, forward lookups
\* through a range-coded and a list-coded value map, reverse lookups in the
\* root automaton and in the automata of two properties.
ConcurrentCalls ==
    {FacadeFrame("getPropertyName", 2, 0, 1, FALSE, <<>>),
     FacadeFrame("getPropertyValueName", 0, 2, 1, FALSE, <<>>),
     FacadeFrame("getPropertyValueName", 2, 3, 0, FALSE, <<>>),
     FacadeFrame("getPropertyEnum", 0, 0, 0, FALSE, <<112, 45, 81>>),
     FacadeFrame("getPropertyValueEnum", 0, 0, 0, FALSE, <<66, 95, 97>>),
     FacadeFrame("getPropertyValueEnum", 2, 0, 0, FALSE, <<98, 97>>)}

CallConcurrently(c) ==
    /\ Idle(c)
    /\ \E f \in ConcurrentCalls : Begin(c, f)

\* Any number of calls at once, their steps interleaved in any order.
Next == \E c \in Callers : CallConcurrently(c) \/ StepOf(c)

Spec == InitTable /\ [][Next]_vars

----------------------------------------------------------------------------
(* What the lookups return, against the description of the table.          *)

\* The position of x in the sequence s, 0 when x is not in s.
IndexOf(s, x) ==
    IF \E k \in 1 .. Len(s) : s[k] = x
    THEN CHOOSE k \in 1 .. Len(s) : s[k] = x
    ELSE 0

NotFound == [found |-> FALSE, name |-> <<>>]

Found(name) == [found |-> TRUE, name |-> name]

\* What a name lookup returned: not-found for NULL, else the string at the
\* returned pointer into nameGroups[].
NameReturned(f) == IF f.rv = NullPtr THEN NotFound ELSE Found(CStrAt(f.rv))

\* Whether nameChoice selects no name of the group names.
NoSuchName(names, nameChoice) ==
    \/ nameChoice < 0
    \/ nameChoice >= Len(names)
    \/ (nameChoice = 0 /\ names[1] = <<>>)

ValueOutsideSubRange ==
    \A c \in Callers :
        (/\ input = 1
         /\ loc[c].op = "getPropertyValueName"
         /\ At(c, "done")
         /\ loc[c].property = 0
         /\ loc[c].value = 2) => loc[c].rv = NullPtr

\* C2: propertyValueEnum(property, alias) returns UCHAR_INVALID_CODE when no
\* property range covers the property or the property has no value map, and
\* then no byte is consumed and no automaton is queried; it returns
\* UCHAR_INVALID_CODE when the alias matches no key of the property's
\* automaton; otherwise it returns the value stored under the alias in the
\* automaton at the offset that is the first word of the property's value
\* map, which is neither the root automaton's nor another property's.
C2_PropertyValueEnum ==
    \A c \in Callers :
        (loc[c].op = "getPropertyValueEnum" /\ At(c, "done")) =>
            LET T == Tables[input]
                f == loc[c]
                k == IndexOf(PropCodes(T), f.property)
                offset == VM(MapOffset(T, k))
                hits == {e \in byteTries[offset] : e.key = Norm(f.alias)}
            IN  IF k = 0 \/ T.props[k].map.kind = "none"
                THEN /\ f.rv = UCHAR_INVALID_CODE
                     /\ f.calls = <<>>
                     /\ f.queries = 0
                ELSE /\ f.byteTrieOffset = offset
                     /\ trie[c].offset = offset
                     /\ offset # 0
                     /\ \A k2 \in 1 .. Len(T.props) :
                           (k2 # k /\ T.props[k2].map.kind # "none") =>
                               VM(MapOffset(T, k2)) # offset
                     /\ IF f.aliasNull \/ hits = {}
                        THEN f.rv = UCHAR_INVALID_CODE
                        ELSE \E e \in hits : f.rv = e.value

\* C2 witness: in the first table, propertyValueEnum(2, "P") returned 3; the
\* root automaton stores "p" for property 0.
C2_Witness ==
    /\ input = 1
    /\ loc[1].op = "getPropertyValueEnum"
    /\ At(1, "done")
    /\ loc[1].property = 2
    /\ loc[1].alias = <<80>>
    /\ ~loc[1].aliasNull
    /\ loc[1].rv = 3
    /\ \E e \in byteTries[0] : e.key = <<112>> /\ e.value = 0

\* What propertyName / propertyValueName return when run alone.
ForwardName(op, property, value, nameChoice) ==
    NameReturned(RunAlone(FacadeFrame(op, property, value, nameChoice,
                                      FALSE, <<>>)))

\* C4: a name that the forward lookup returns is mapped back by the reverse
\* lookup: propertyEnum(s) = p for the short name s of a property p, and
\* propertyValueEnum(p, a) = v for every name a of a value v of property p.
C4_RoundTrip ==
    \A c \in Callers :
        (At(c, "done") /\ ~loc[c].aliasNull) =>
            /\ loc[c].op = "getPropertyEnum" =>
                  \A p \in Codes :
                      ForwardName("getPropertyName", p, 0, 0) = Found(loc[c].alias)
                          => loc[c].rv = p
            /\ loc[c].op = "getPropertyValueEnum" =>
                  \A v \in Codes, nameChoice \in Choices :
                      ForwardName("getPropertyValueName", loc[c].property, v,
                                  nameChoice) = Found(loc[c].alias)
                          => loc[c].rv = v

\* C4 witness: in the first table, propertyValueEnum(0, "B_r") returned 1,
\* and "B_r" is what propertyValueName(0, 1, 1) returns.
C4_Witness ==
    /\ input = 1
    /\ loc[1].op = "getPropertyValueEnum"
    /\ At(1, "done")
    /\ loc[1].property = 0
    /\ loc[1].alias = <<66, 95, 114>>
    /\ ~loc[1].aliasNull
    /\ loc[1].rv = 1
    /\ ForwardName("getPropertyValueName", 0, 1, 1) = Found(loc[1].alias)

\* The short name of a property maps back to the property.
ShortNameRoundTrip ==
    \A c \in Callers :
        (/\ input = 1
         /\ loc[c].op = "getPropertyEnum"
         /\ At(c, "done")
         /\ ~loc[c].aliasNull
         /\ loc[c].alias = <<82>>) => loc[c].rv = 2

----------------------------------------------------------------------------
(* Concurrent calls.                                                       *)

\* The frame the call of f started in: its operation and arguments.
InitialFrame(f) ==
    FacadeFrame(f.op, f.property, f.value, f.nameChoice, f.aliasNull, f.alias)

\* Whether a call run alone from frame f with ByteTrie t passes through cur.
RECURSIVE OnPath(_, _, _)
OnPath(cur, f, t) ==
    IF cur = [f |-> f, t |-> t]
    THEN TRUE
    ELSE IF f.pc = "done"
    THEN FALSE
    ELSE LET n == StepFrame(f, t) IN OnPath(cur, n.f, n.t)

\* Call c is where it would be had it run alone: its frame and its ByteTrie
\* are a state of the run from its initial frame.
RunsAsAlone(c) ==
    OnPath([f |-> loc[c], t |-> trie[c]], InitialFrame(loc[c]), NoTrie)

TableUnchanged ==
    /\ valueMaps = Laid[input].valueMaps
    /\ nameGroups = Laid[input].nameGroups
    /\ byteTries = Laid[input].byteTries

\* A step writes the frame and the ByteTrie of one call and nothing else.
WritesOwnStateOnly ==
    \E c \in Callers :
        /\ \A d \in Callers \ {c} : loc'[d] = loc[d] /\ trie'[d] = trie[d]
        /\ table' = table

\* C6: in every interleaving of the steps of concurrent facade calls, the
\* table is unchanged, every call is in a state of its run alone and, when
\* it has returned, holds the result of its run alone; each step writes only
\* the frame and ByteTrie of the call that takes it.
C6_NoInterference ==
    /\ [](/\ TableUnchanged
          /\ \A c \in Callers :
                ~Idle(c) =>
                    /\ RunsAsAlone(c)
                    /\ At(c, "done") =>
                          loc[c].rv = RunAlone(InitialFrame(loc[c])).rv)
    /\ [][WritesOwnStateOnly]_vars

\* C6 witness: in the first table, propertyValueEnum(0, "B_a") of call 1 has
\* returned 1 while the same lookup of call 2 is inside its traversal of
\* the same automaton, having consumed 'b'.
C6_Witness ==
    /\ input = 1
    /\ loc[1].op = "getPropertyValueEnum"
    /\ At(1, "done")
    /\ loc[1].rv = 1
    /\ loc[2].op = "getPropertyValueEnum"
    /\ loc[2].property = loc[1].property
    /\ At(2, "containsName.loop")
    /\ trie[2].offset = trie[1].offset
    /\ trie[2].pos = <<98>>
    /\ trie[1].pos = <<98, 97>>

====
